---- MODULE Spec2Model ----
(***************************************************************************)
(* A model of @soffinal/rpc: the server-side dispatcher Action.handle      *)
(* (src/src/action.ts) and the client multiplexer Client.create            *)
(* (src/src/client.ts).                                                    *)
(*                                                                         *)
(* JavaScript values are modelled as tagged records:                       *)
(*   [t |-> "prim", p |-> tok]      a primitive, tok its source text       *)
(*   [t |-> "obj", data, error, actionName]                                *)
(*                                  an object, each field a payload token  *)
(*                                  or Absent when the object has no such  *)
(*                                  own property                           *)
(*   [t |-> "fn", owner, name]      a function                             *)
(*   [t |-> "proto"]                Object.prototype                       *)
(*   [t |-> "bundle", of |-> f]     the context object given to handle     *)
(*   [t |-> "ctx", v |-> tok]       one context value held by the bundle   *)
(* Payloads (the values of data and error) are opaque to the program, so   *)
(* they are tokens; only their truthiness is ever inspected.               *)
(***************************************************************************)
EXTENDS Integers, Sequences, FiniteSets, TLC

(* ------------------------------ bounds --------------------------------- *)

\* longest positional argument list of a request or client call
MaxArgs == 2

(* --------------------------- JavaScript values -------------------------- *)

Absent == "<absent>"

Prim(p) == [t |-> "prim", p |-> p]

Obj(d, e, n) == [t |-> "obj", data |-> d, error |-> e, actionName |-> n]

Undefined == Prim("undefined")

\* the primitives JavaScript's ToBoolean maps to false
FalsyTokens == {"undefined", "null", "false", "0", "''"}

\* ToBoolean of a value: objects and functions are always truthy
Truthy(v) == v.t # "prim" \/ v.p \notin FalsyTokens

\* x is nullish: reading a property of it throws a TypeError
Nullish(v) == v.t = "prim" /\ v.p \in {"undefined", "null"}

Has(o, field) == o.t = "obj" /\ o[field] # Absent

\* Action.Response: exactly one of data and error is present
IsResponse(v) == v.t = "obj" /\ (Has(v, "data") # Has(v, "error"))

(* ----------------------- Action.success / Action.error ------------------ *)

success(data) == Obj(data, Absent, Absent)

error(err) == Obj(Absent, err, Absent)

(* ------------------------------ requests -------------------------------- *)

\* the args field of a request: missing, a non-iterable primitive, an array
ArgsAbsent == [k |-> "absent", p |-> "undefined", items |-> <<>>]

ArgsPrim(p) == [k |-> "prim", p |-> p, items |-> <<>>]

ArgsArray(s) == [k |-> "array", p |-> "undefined", items |-> s]

Request(a, args) == [t |-> "obj", action |-> a, args |-> args]

ArgTokens == {"1", "'x'"}

ArgLists == UNION {[1..n -> ArgTokens] : n \in 0..MaxArgs}

\* names a registry may hold a handler under (the empty string included)
HandlerNames == {"a", "b", ""}

\* members every plain object inherits from Object.prototype
ObjectPrototypeKeys == {"toString", "constructor", "__proto__"}

\* the action field of a request: registrable names, a name nobody
\* registers, inherited member names, or no action field at all
RequestActions == HandlerNames \cup {"ghost", Absent} \cup ObjectPrototypeKeys

RequestArgs == {ArgsAbsent, ArgsPrim("null")} \cup {ArgsArray(s) : s \in ArgLists}

\* request: any -- untrusted, so also undefined, null and a number
Requests ==
  {Prim("undefined"), Prim("null"), Prim("42")}
    \cup {Request(a, args) : a \in RequestActions, args \in RequestArgs}

\* request.action on a non-nullish value: primitives have no such property
requestAction(req) == IF req.t = "obj" THEN req.action ELSE Absent

\* request.args on a non-nullish value
requestArgs(req) == IF req.t = "obj" THEN req.args ELSE ArgsAbsent

\* a property key: undefined becomes the string "undefined"
ToPropertyKey(x) == IF x = Absent THEN "undefined" ELSE x

\* ...x in a call: arrays are iterable, undefined / null are not
Iterable(args) == args.k = "array"

(* --------------------------- handler registry --------------------------- *)

Fn(owner, name) == [t |-> "fn", owner |-> owner, name |-> name]

Registries == SUBSET HandlerNames

\* actions[key] on a plain object: own handlers first, then the members
\* inherited from Object.prototype, else undefined
GetProperty(acts, key) ==
  IF key \in acts THEN Fn("actions", key)
  ELSE IF key \in {"toString", "constructor"} THEN Fn("Object.prototype", key)
  ELSE IF key = "__proto__" THEN [t |-> "proto"]
  ELSE Undefined

Callable(v) == v.t = "fn"

(* ---------------------------- context bundle ---------------------------- *)

Bundle(f) == [t |-> "bundle", of |-> f]

\* the context objects a caller passes: no entry, one entry, two entries
Contexts ==
  { Bundle([n \in HandlerNames |-> Absent]),
    Bundle([n \in HandlerNames |-> IF n = "a" THEN "ctxA" ELSE Absent]),
    Bundle([n \in HandlerNames |->
              IF n = "a" THEN "ctxA" ELSE IF n = "b" THEN "ctxB" ELSE Absent]) }

\* the context value the bundle holds for one action
ContextOf(bundle, name) ==
  IF name \in DOMAIN bundle.of /\ bundle.of[name] # Absent
  THEN [t |-> "ctx", v |-> bundle.of[name]]
  ELSE Undefined

(* --------------------------- handler behaviour -------------------------- *)

\* what a handler may return or resolve to: nothing, other falsy values, a
\* non-envelope primitive, success / error envelopes, an object with both
\* fields, an object with neither
HandlerValues ==
  {Prim(p) : p \in FalsyTokens \cup {"42"}}
    \cup {success(d) : d \in {"undefined", "42"}}
    \cup {error(e) : e \in {"''", "'Name too short'", "unknown"}}
    \cup {Obj("42", "'x'", Absent), Obj(Absent, Absent, Absent)}

Threw == [how |-> "threw", value |-> Undefined]

Returned(v) == [how |-> "returned", value |-> v]

ReturnedPromise == [how |-> "promise", value |-> Undefined]

\* the synchronous completions of fn(ctx, ...args)
Behaviours(fn, ctx, args) ==
  IF fn.owner = "actions"
  THEN {Threw, ReturnedPromise} \cup {Returned(v) : v \in HandlerValues}
  ELSE IF fn.name = "toString"
  THEN {Returned(Prim("'[object Undefined]'"))}
  ELSE {Returned(ctx)}

(* ------------------------- clients and properties ----------------------- *)

\* the clients made by separate Client.create calls
Clients == {"c1", "c2"}

\* the properties of the proxy that are streams, not accessors
StreamProps == {"responses", "error", "data"}

\* action names a caller uses on the client
ClientActions == {"addUser", "deleteUser"}

\* names a server may register an action under: a server action may be
\* called data
ServerActionNames == ClientActions \cup {"data"}

Props == ClientActions \cup StreamProps

(* ------------------------------- state ---------------------------------- *)

VARIABLES
  request,   \* handle's first parameter
  actions,   \* handle's second parameter: the own keys of the registry
  context,   \* handle's third parameter
  hpc,       \* the promise handle returned: idle, awaiting, resolved, rejected
  awaited,   \* the operand of the await: [state, value, async]
  invoked,   \* the functions called during this handle call, in order
  returned,  \* the value the promise of handle resolved to
  calls,         \* the client calls issued so far, in order of issue
  responses,     \* per client, the values pushed onto its responses stream
  actionObjects, \* per client, the accessor cached under each property
  created,       \* per client, the properties an accessor was built for
  listeners,     \* the listeners registered so far, in order
  microtasks     \* the suspended client calls whose await has settled

handleVars == <<request, actions, context, hpc, awaited, invoked, returned>>

clientVars == <<calls, responses, actionObjects, created, listeners, microtasks>>

vars == <<request, actions, context, hpc, awaited, invoked, returned,
          calls, responses, actionObjects, created, listeners, microtasks>>

NotAwaiting == [state |-> "none", value |-> Undefined, async |-> FALSE]

Invocation(fn, ctx, args) == [fn |-> fn, ctx |-> ctx, args |-> args]

Init ==
  /\ request = Undefined
  /\ actions = {}
  /\ context = Bundle([n \in HandlerNames |-> Absent])
  /\ hpc = "idle"
  /\ awaited = NotAwaiting
  /\ invoked = <<>>
  /\ returned = Undefined
  /\ calls = <<>>
  /\ responses = [c \in Clients |-> <<>>]
  /\ actionObjects = [c \in Clients |-> [p \in Props |-> 0]]
  /\ created = [c \in Clients |-> <<>>]
  /\ listeners = <<>>
  /\ microtasks = <<>>

(* ---------------------------- Action.handle ----------------------------- *)

Completion(pc, value) == [pc |-> pc, value |-> value]

\* line 346 runs before the try: a TypeError there rejects the promise
handle_lookupThrows(req) == Nullish(req)

\* line 346
handle_lookup(req, acts) == GetProperty(acts, ToPropertyKey(requestAction(req)))

\* line 348
handle_notFound == Completion("resolved", error("action-not-found"))

\* a catch clause that lets the fault escape
handle_catch_rethrow == Completion("rejected", Undefined)

\* lines 355-357
handle_catch == Completion("resolved", error("unknown"))

\* line 350: the first argument handed to the handler
handle_contextArgument(ctx, req) == ctx

\* a result whose error is replaced by a HandleError
handle_result_coerced(result) ==
  IF ~Truthy(result) THEN success("undefined")
  ELSE IF Has(result, "error") THEN error("unknown")
  ELSE result

\* a result returned without the falsy check
handle_result_unchecked(result) == result

\* a result normalized only when it is undefined or null
handle_result_nullishOnly(result) ==
  IF Nullish(result) THEN success("undefined") ELSE result

\* lines 352-354
handle_result(result) == IF ~Truthy(result) THEN success("undefined") ELSE result

\* the call of handle up to its first suspension
HandleCall(req, acts, ctx) ==
  /\ hpc = "idle"
  /\ request' = req
  /\ actions' = acts
  /\ context' = ctx
  /\ IF handle_lookupThrows(req)
     THEN /\ hpc' = "rejected"
          /\ UNCHANGED <<awaited, invoked, returned>>
     ELSE LET action == handle_lookup(req, acts)
              args == requestArgs(req)
              arg0 == handle_contextArgument(ctx, req)
              done(c) == /\ hpc' = c.pc
                         /\ returned' = c.value
          IN IF ~Truthy(action)
             THEN done(handle_notFound) /\ UNCHANGED <<awaited, invoked>>
             ELSE IF ~Iterable(args) \/ ~Callable(action)
             THEN done(handle_catch) /\ UNCHANGED <<awaited, invoked>>
             ELSE \E beh \in Behaviours(action, arg0, args.items) :
                    /\ invoked' = Append(invoked, Invocation(action, arg0, args.items))
                    /\ CASE beh.how = "threw" ->
                              /\ done(handle_catch)
                              /\ awaited' = [state |-> "threw", value |-> Undefined,
                                             async |-> FALSE]
                         [] beh.how = "returned" ->
                              /\ hpc' = "awaiting"
                              /\ awaited' = [state |-> "fulfilled", value |-> beh.value,
                                             async |-> FALSE]
                              /\ UNCHANGED returned
                         [] beh.how = "promise" ->
                              /\ hpc' = "awaiting"
                              /\ awaited' = [state |-> "pending", value |-> Undefined,
                                             async |-> TRUE]
                              /\ UNCHANGED returned
  /\ UNCHANGED clientVars

\* the promise a handler returned is fulfilled
HandlerFulfils(v) ==
  /\ hpc = "awaiting"
  /\ awaited.state = "pending"
  /\ awaited' = [awaited EXCEPT !.state = "fulfilled", !.value = v]
  /\ UNCHANGED <<request, actions, context, hpc, invoked, returned>>
  /\ UNCHANGED clientVars

\* the promise a handler returned is rejected
HandlerRejects ==
  /\ hpc = "awaiting"
  /\ awaited.state = "pending"
  /\ awaited' = [awaited EXCEPT !.state = "rejected"]
  /\ UNCHANGED <<request, actions, context, hpc, invoked, returned>>
  /\ UNCHANGED clientVars

\* handle resumes after the await, lines 350-357
HandleResume ==
  /\ hpc = "awaiting"
  /\ awaited.state \in {"fulfilled", "rejected"}
  /\ LET c == IF awaited.state = "rejected"
              THEN handle_catch
              ELSE Completion("resolved", handle_result(awaited.value))
     IN /\ hpc' = c.pc
        /\ returned' = c.value
  /\ UNCHANGED <<request, actions, context, awaited, invoked>>
  /\ UNCHANGED clientVars

Next ==
  \/ \E req \in Requests, acts \in Registries, ctx \in Contexts :
       HandleCall(req, acts, ctx)
  \/ \E v \in HandlerValues : HandlerFulfils(v)
  \/ HandlerRejects
  \/ HandleResume

Spec == Init /\ [][Next]_vars

(* ---------------------------- Client.create ----------------------------- *)

\* most client calls issued, over all clients
MaxCalls == 2

\* most listeners registered, over all clients
MaxListeners == 1

ClientArgLists == {s \in ArgLists : Len(s) <= 1 /\ \A i \in DOMAIN s : s[i] = "1"}

\* what the transport may answer: a success, a handler error, a dispatcher
\* error, an envelope carrying an actionName of its own, and null
TransportValues ==
  { success("42"), error("'Name too short'"), error("action-not-found"),
    Obj("42", Absent, "other"), Prim("null") }

\* the synchronous completions of send(request)
SendBehaviours == {Threw, ReturnedPromise} \cup {Returned(v) : v \in TransportValues}

(* Event streams.  A stream is named by its kind, the action it is derived  *)
(* for and the accessor it belongs to; a listener records the values its    *)
(* callback was invoked with.                                               *)

Stream(kind, action, accessor) == [kind |-> kind, action |-> action, accessor |-> accessor]

Listener(c, s, throws, since) ==
  [client |-> c, stream |-> s, throws |-> throws, since |-> since, received |-> <<>>]

\* o.field read from an object: undefined when the property is missing
ReadField(o, field) == IF o[field] = Absent THEN Undefined ELSE Prim(o[field])

\* source.pipe(filter(...)).pipe(map(...)): what the derived stream emits
\* for one value of its source
Stream_pipe(pass, out) == IF pass THEN <<out>> ELSE <<>>

\* lines 168-170: the global error stream
create_error(response) ==
  Stream_pipe(Truthy(ReadField(response, "error")), [response EXCEPT !.data = Absent])

\* lines 172-174: the global data stream
create_data(response) ==
  Stream_pipe(~Truthy(ReadField(response, "error")), [response EXCEPT !.error = Absent])

\* lines 185-187: the data stream of one accessor
get_data(response, prop) ==
  Stream_pipe(~Truthy(ReadField(response, "error")) /\ response.actionName = prop,
              ReadField(response, "data"))

\* lines 189-191: the error stream of one accessor
get_error(response, prop) ==
  Stream_pipe(Truthy(ReadField(response, "error")) /\ response.actionName = prop,
              ReadField(response, "error"))

\* what stream s emits when response is pushed onto responses
Emitted(s, response) ==
  CASE s.kind = "responses" -> <<response>>
    [] s.kind = "error" -> create_error(response)
    [] s.kind = "data" -> create_data(response)
    [] s.kind = "action.data" -> get_data(response, s.action)
    [] s.kind = "action.error" -> get_error(response, s.action)

RECURSIVE Deliveries(_, _)
\* what a stream emits for the responses rs, one after the other
Deliveries(s, rs) ==
  IF rs = <<>> THEN <<>>
  ELSE Emitted(s, Head(rs)) \o Deliveries(s, Tail(rs))

\* Stream.listen: what a new listener is invoked with for the values pushed
\* before it registered
Stream_listen_replays(s, history) == Deliveries(s, history)

Stream_listen(s, history) == <<>>

\* whether a listener that throws ends the push it is notified by
Stream_faultEndsPush_unguarded == TRUE

Stream_faultEndsPush == FALSE

\* listener i of ls is notified of a push onto the streams of targets
Stream_notifies(ls, i, targets, response) ==
  /\ ls[i].client \in targets
  /\ Emitted(ls[i].stream, response) # <<>>
  /\ Stream_faultEndsPush =>
       ~\E j \in 1..(i - 1) : /\ ls[j].client \in targets
                              /\ ls[j].throws
                              /\ Emitted(ls[j].stream, response) # <<>>

\* Stream.push: every listener is invoked with what its stream emits
Stream_push_deferred(ls, targets, response) == ls

Stream_push(ls, targets, response) ==
  [i \in DOMAIN ls |->
     IF Stream_notifies(ls, i, targets, response)
     THEN [ls[i] EXCEPT !.received = @ \o Emitted(ls[i].stream, response)]
     ELSE ls[i]]

\* Stream.push throws to its caller
Stream_pushThrows(ls, targets, response) ==
  /\ Stream_faultEndsPush
  /\ \E i \in DOMAIN ls : Stream_notifies(ls, i, targets, response) /\ ls[i].throws

\* line 183 (after lines 178-180): the get handler builds a new accessor
proxy_creates_always(cache, prop) == prop \notin StreamProps

proxy_creates(cache, prop) == prop \notin StreamProps /\ cache[prop] = 0

\* lines 183-209: the accessor cache after proxy.get(prop); made is the
\* list of the accessors built so far
proxy_get(cache, made, prop) ==
  IF proxy_creates(cache, prop) THEN [cache EXCEPT ![prop] = Len(made) + 1] ELSE cache

\* lines 184-208: the accessors built so far, after proxy.get(prop)
proxy_made(cache, made, prop) ==
  IF proxy_creates(cache, prop) THEN Append(made, prop) ELSE made

\* lines 178-180 and 211: the accessor proxy.get(prop) returns, 0 for a stream
proxy_value(cache, made, prop) ==
  IF prop \in StreamProps THEN 0 ELSE proxy_get(cache, made, prop)[prop]

\* line 165: the clients whose responses stream the accessors of c push onto
create_responses_shared(c) == Clients

create_responses(c) == {c}

\* line 195
actionFunction_request(prop, args) == Request(prop, ArgsArray(args))

\* line 196: the await throws when the promise of send is rejected
await_throws_never(send) == FALSE

await_throws(send) == send = "rejected"

\* line 196: the continuation of call i waits for the promise of its own
\* send, whatever the other calls in cs are waiting for
await_ready_inOrder(cs, i) == \A j \in 1..i : cs[j].send # "pending"

await_ready(cs, i) == cs[i].send # "pending"

\* line 196: the suspended call that resumes next, by its place in the queue
microtask_next_last(queue) == Len(queue)

microtask_next(queue) == 1

\* line 199: { ...response, actionName: prop }
actionFunction_tagged_keepsOwn(response, prop) ==
  IF response.t = "obj"
  THEN IF response.actionName = Absent THEN [response EXCEPT !.actionName = prop]
       ELSE response
  ELSE Obj(Absent, Absent, prop)

actionFunction_tagged(response, prop) ==
  IF response.t = "obj"
  THEN [response EXCEPT !.actionName = prop]
  ELSE Obj(Absent, Absent, prop)

\* a push that is skipped for error responses
actionFunction_pushes_successOnly(response, prop) ==
  IF Has(response, "error") THEN <<>> ELSE <<actionFunction_tagged(response, prop)>>

\* lines 198-199: the values actionFunction pushes once send has resolved
actionFunction_pushes(response, prop) == <<actionFunction_tagged(response, prop)>>

\* a call that resolves to the tagged entry
actionFunction_return_tagged(response, prop) == actionFunction_tagged(response, prop)

\* line 201
actionFunction_return(response, prop) == response

\* one client call: the accessor called, the requests send was called with,
\* the state of the promise of send and of the promise of the call, and
\* when it settled and pushed
Call(c, prop, args, accessor, sent, send, promise, response, settledAt) ==
  [client |-> c, action |-> prop, args |-> args, accessor |-> accessor,
   sent |-> sent, send |-> send, promise |-> promise, response |-> response,
   result |-> Undefined, pushed |-> <<>>, settledAt |-> settledAt, pushedAt |-> 0]

\* the number of calls whose send has settled
Settled == Cardinality({i \in DOMAIN calls : calls[i].settledAt > 0})

\* client.<prop> is read without being called
ProxyGet(c, prop) ==
  /\ actionObjects' = [actionObjects EXCEPT ![c] = proxy_get(@, created[c], prop)]
  /\ created' = [created EXCEPT ![c] = proxy_made(actionObjects[c], @, prop)]
  /\ UNCHANGED <<calls, responses, microtasks, listeners>>
  /\ UNCHANGED handleVars

\* client.<stream>.listen(callback) and client.<prop>.<stream>.listen(callback)
Listen(c, kind, prop, throws, most) ==
  /\ Len(listeners) < most
  /\ IF kind \in {"action.data", "action.error"}
     THEN /\ prop \in ClientActions
          /\ actionObjects' = [actionObjects EXCEPT ![c] = proxy_get(@, created[c], prop)]
          /\ created' = [created EXCEPT ![c] = proxy_made(actionObjects[c], @, prop)]
          /\ listeners' =
               Append(listeners,
                      [Listener(c, Stream(kind, prop,
                                          proxy_value(actionObjects[c], created[c], prop)),
                                throws, Len(responses[c]))
                         EXCEPT !.received =
                           Stream_listen(Stream(kind, prop, 0), responses[c])])
     ELSE /\ prop = Absent
          /\ listeners' =
               Append(listeners,
                      [Listener(c, Stream(kind, Absent, 0), throws, Len(responses[c]))
                         EXCEPT !.received =
                           Stream_listen(Stream(kind, Absent, 0), responses[c])])
          /\ UNCHANGED <<actionObjects, created>>
  /\ UNCHANGED <<calls, responses, microtasks>>
  /\ UNCHANGED handleVars

\* client.<prop>(...args): lines 177-196, up to the await of send(request)
ClientCall(c, prop, args, beh) ==
  /\ Len(calls) < MaxCalls
  /\ actionObjects' = [actionObjects EXCEPT ![c] = proxy_get(@, created[c], prop)]
  /\ created' = [created EXCEPT ![c] = proxy_made(actionObjects[c], @, prop)]
  /\ LET id == Len(calls) + 1
         accessor == proxy_value(actionObjects[c], created[c], prop)
         sent == <<actionFunction_request(prop, args)>>
     IN IF prop \in StreamProps
        THEN \* the property is a stream: calling it throws a TypeError
             /\ calls' = Append(calls, Call(c, prop, args, accessor, <<>>, "none",
                                           "threw", Undefined, 0))
             /\ UNCHANGED microtasks
        ELSE CASE beh.how = "threw" ->
               /\ calls' = Append(calls, Call(c, prop, args, accessor, sent, "threw",
                                             "rejected", Undefined, 0))
               /\ UNCHANGED microtasks
          [] beh.how = "returned" ->
               /\ calls' = Append(calls, Call(c, prop, args, accessor, sent, "fulfilled",
                                             "pending", beh.value, Settled + 1))
               /\ microtasks' = Append(microtasks, id)
          [] beh.how = "promise" ->
               /\ calls' = Append(calls, Call(c, prop, args, accessor, sent, "pending",
                                             "pending", Undefined, 0))
               /\ UNCHANGED microtasks
  /\ UNCHANGED <<responses, listeners>>
  /\ UNCHANGED handleVars

\* the promise send returned is fulfilled with v
SendResolves(i, v) ==
  /\ i \in DOMAIN calls
  /\ calls[i].send = "pending"
  /\ calls' = [calls EXCEPT ![i].send = "fulfilled", ![i].response = v,
                            ![i].settledAt = Settled + 1]
  /\ microtasks' = Append(microtasks, i)
  /\ UNCHANGED <<responses, actionObjects, created, listeners>>
  /\ UNCHANGED handleVars

\* the promise send returned is rejected
SendRejects(i) ==
  /\ i \in DOMAIN calls
  /\ calls[i].send = "pending"
  /\ calls' = [calls EXCEPT ![i].send = "rejected", ![i].settledAt = Settled + 1]
  /\ microtasks' = Append(microtasks, i)
  /\ UNCHANGED <<responses, actionObjects, created, listeners>>
  /\ UNCHANGED handleVars

\* a settled call resumes after its await: lines 196-201
ClientResume ==
  /\ microtasks # <<>>
  /\ await_ready(calls, microtasks[microtask_next(microtasks)])
  /\ LET at == microtask_next(microtasks)
         i == microtasks[at]
         c == calls[i]
     IN /\ microtasks' = [k \in 1..(Len(microtasks) - 1) |->
                            IF k < at THEN microtasks[k] ELSE microtasks[k + 1]]
        /\ IF await_throws(c.send)
           THEN /\ calls' = [calls EXCEPT ![i].promise = "rejected"]
                /\ UNCHANGED <<responses, listeners>>
           ELSE LET pushes == actionFunction_pushes(c.response, c.action)
                    targets == create_responses(c.client)
                    threw == \E k \in DOMAIN pushes :
                               Stream_pushThrows(listeners, targets, pushes[k])
                IN /\ responses' = [k \in Clients |->
                                      IF k \in targets THEN responses[k] \o pushes
                                      ELSE responses[k]]
                   /\ listeners' = IF pushes = <<>> THEN listeners
                                   ELSE Stream_push(listeners, targets, pushes[1])
                   /\ calls' = [calls EXCEPT
                                  ![i].promise = IF threw THEN "rejected" ELSE "resolved",
                                  ![i].result =
                                    IF threw THEN Undefined
                                    ELSE actionFunction_return(c.response, c.action),
                                  ![i].pushed = pushes,
                                  ![i].pushedAt =
                                    IF pushes = <<>> THEN 0
                                    ELSE Len(responses[c.client]) + 1]
  /\ UNCHANGED <<actionObjects, created>>
  /\ UNCHANGED handleVars

\* one client, no listener: the calls and the transport in full
ClientNext ==
  \/ \E prop \in Props : ProxyGet("c1", prop)
  \/ \E prop \in ServerActionNames, args \in ClientArgLists, beh \in SendBehaviours :
       ClientCall("c1", prop, args, beh)
  \/ \E i \in 1..MaxCalls, v \in TransportValues : SendResolves(i, v)
  \/ \E i \in 1..MaxCalls : SendRejects(i)
  \/ ClientResume

ClientSpec == Init /\ [][ClientNext]_vars

\* the streams a caller can listen on
StreamKinds == {"responses", "error", "data", "action.data", "action.error"}

\* answers that tell the derived streams apart: a success, an error, an
\* error whose value is falsy, an object carrying both fields
StreamTransportValues ==
  { success("42"), error("'Name too short'"), error("''"), Obj("42", "'x'", Absent) }

\* one client with listeners on its streams and on the streams of addUser;
\* every send answers at once
StreamNext ==
  \/ \E kind \in StreamKinds, prop \in {"addUser", Absent} :
       Listen("c1", kind, prop, FALSE, MaxListeners)
  \/ \E prop \in ClientActions, v \in StreamTransportValues :
       ClientCall("c1", prop, <<>>, Returned(v))
  \/ ClientResume

StreamSpec == Init /\ [][StreamNext]_vars

\* one call followed through every outcome of send, with listeners that may
\* throw; a second listener is what shows the effect of a listener's fault
CallNext ==
  \/ \E kind \in StreamKinds, prop \in {"addUser", Absent}, throws \in BOOLEAN :
       Listen("c1", kind, prop, throws, MaxListeners + 1)
  \/ \E beh \in {Threw, ReturnedPromise} \cup {Returned(v) : v \in StreamTransportValues} :
       calls = <<>> /\ ClientCall("c1", "addUser", <<>>, beh)
  \/ \E v \in StreamTransportValues : SendResolves(1, v)
  \/ SendRejects(1)
  \/ ClientResume

CallSpec == Init /\ [][CallNext]_vars

\* two clients with listeners: every send answers at once
IsolationNext ==
  \/ \E c \in Clients, kind \in StreamKinds, prop \in {"addUser", Absent} :
       Listen(c, kind, prop, FALSE, MaxListeners)
  \/ \E c \in Clients, v \in {success("42"), error("'Name too short'")} :
       ClientCall(c, "addUser", <<>>, Returned(v))
  \/ ClientResume

IsolationSpec == Init /\ [][IsolationNext]_vars

\* calls in flight together, some of whose sends never settle; a call whose
\* send has settled is resumed eventually
PendingNext ==
  \/ \E prop \in ClientActions, beh \in {ReturnedPromise, Returned(success("42"))} :
       ClientCall("c1", prop, <<>>, beh)
  \/ \E i \in 1..MaxCalls, v \in {success("42"), error("'Name too short'")} :
       SendResolves(i, v)
  \/ ClientResume

PendingSpec == Init /\ [][PendingNext]_vars /\ WF_vars(ClientResume)

(* ------------------------------ properties ------------------------------ *)

\* the key handle looks up in the registry
Key == ToPropertyKey(requestAction(request))

\* handle has been called with a request it can read
Called == hpc # "idle" /\ ~Nullish(request)

\* handle has been called and the registry holds a handler under the key
Registered == Called /\ Key \in actions

\* the registered handler was invoked and completed normally with v,
\* directly or through the promise it returned
HandlerCompletedWith(v) ==
  Registered /\ invoked # <<>> /\ awaited.state = "fulfilled" /\ awaited.value = v

\* C1: the promise Action.handle returns is never rejected, whatever the
\* request (null, undefined, a non-object, malformed fields), the registry
\* and the handler do.
C1_HandleNeverRejects == hpc # "rejected"

\* C2: when the requested name is not registered, no function of any kind is
\* invoked during the call and handle resolves to {error: "action-not-found"}.
C2_UnregisteredIsNotFound ==
  (Called /\ Key \notin actions) =>
     /\ invoked = <<>>
     /\ hpc = "resolved"
     /\ returned = error("action-not-found")

\* C3: when a registered handler throws synchronously or its promise
\* rejects, handle is never rejected and resolves to exactly
\* {error: "unknown"}.
C3_HandlerFaultIsUnknown ==
  (Registered /\ awaited.state \in {"threw", "rejected"}) =>
     /\ hpc \in {"awaiting", "resolved"}
     /\ hpc = "awaiting" => awaited.state = "rejected"
     /\ hpc = "resolved" => returned = error("unknown")

C3_Witness ==
  /\ Registered
  /\ awaited.state = "rejected"
  /\ hpc = "resolved"
  /\ returned = error("unknown")

\* C4: when the registered handler completes without throwing and returns a
\* Response Envelope, synchronously or through a promise, handle resolves to
\* exactly that envelope.
C4_EnvelopePassesThrough ==
  \A v \in HandlerValues :
    (HandlerCompletedWith(v) /\ IsResponse(v) /\ hpc = "resolved") => returned = v

C4_Witness ==
  /\ HandlerCompletedWith(error("'Name too short'"))
  /\ awaited.async
  /\ hpc = "resolved"
  /\ returned = error("'Name too short'")

\* C5: the first argument a registered handler receives is the context value
\* the bundle holds for the requested action, and the remaining arguments
\* are the request's args.
C5_HandlerGetsItsOwnContext ==
  \A i \in DOMAIN invoked :
    invoked[i].fn.owner = "actions" =>
      /\ invoked[i].ctx = ContextOf(context, invoked[i].fn.name)
      /\ invoked[i].args = requestArgs(request).items

\* C6: a request that names a registered action and has no args field has
\* its handler invoked, with no positional arguments.
C6_MissingArgsIsEmpty ==
  (Registered /\ requestArgs(request).k = "absent") =>
     /\ Len(invoked) = 1
     /\ invoked[1].fn = Fn("actions", Key)
     /\ invoked[1].args = <<>>

\* C7: a handle call whose request names a registered handler invokes that
\* handler exactly once and invokes nothing else.
C7_ExactlyOneInvocation ==
  Registered =>
     /\ Len(invoked) = 1
     /\ invoked[1].fn = Fn("actions", Key)

\* C8: every value handle resolves to has exactly one of data and error,
\* whatever the registered handler returned.
C8_AlwaysOneOfDataError == (Registered /\ hpc = "resolved") => IsResponse(returned)

\* C9: when a registered handler completes without throwing and returns
\* undefined, handle resolves to {data: undefined}.
C9_NothingIsDataUndefined ==
  (HandlerCompletedWith(Undefined) /\ hpc = "resolved") => returned = success("undefined")

C9_Witness ==
  /\ HandlerCompletedWith(Undefined)
  /\ hpc = "resolved"
  /\ returned = success("undefined")

\* the calls whose continuation ran after send resolved
ResolvedCalls == {i \in DOMAIN calls : calls[i].promise = "resolved"}

\* C10: a client call pushes exactly one entry once its transport has
\* resolved and none otherwise; the entry carries the called action's name
\* and the data and error of the transport's response; the stream holds as
\* many entries as there are calls whose transport resolved.
C10_OnePushPerResolvedCall ==
  /\ \A c \in Clients :
       Len(responses[c]) = Cardinality({i \in ResolvedCalls : calls[i].client = c})
  /\ \A i \in DOMAIN calls :
       IF i \in ResolvedCalls
       THEN /\ calls[i].send = "fulfilled"
            /\ Len(calls[i].pushed) = 1
            /\ calls[i].pushed[1].actionName = calls[i].action
            /\ \A f \in {"data", "error"} :
                 calls[i].pushed[1][f] =
                   (IF calls[i].response.t = "obj" THEN calls[i].response[f] ELSE Absent)
            /\ responses[calls[i].client][calls[i].pushedAt] = calls[i].pushed[1]
       ELSE calls[i].pushed = <<>>

C10_Witness ==
  /\ Len(calls) = 2
  /\ ResolvedCalls = {1, 2}
  /\ Has(calls[1].response, "error")
  /\ Has(calls[2].response, "data")
  /\ Len(responses["c1"]) = 2

\* the entries pushed onto the responses stream of a listener's client since
\* the listener was registered
PushedSince(l) ==
  SubSeq(responses[l.client], l.since + 1, Len(responses[l.client]))

\* the place of call i in the queue of suspended calls, if it is there
Queued(i) == \E k \in DOMAIN microtasks : microtasks[k] = i

\* C11: a call whose send rejects (or throws) pushes nothing onto
\* client.responses, no listener of any stream is notified for it, and the
\* call's promise rejects.
C11_RejectedSendPushesNothing ==
  /\ \A i \in DOMAIN calls :
       calls[i].send \in {"rejected", "threw"} =>
          /\ calls[i].pushed = <<>>
          /\ calls[i].promise \in {"pending", "rejected"}
          /\ ~Queued(i) => calls[i].promise = "rejected"
  /\ \A c \in Clients :
       Len(responses[c]) =
         Cardinality({i \in DOMAIN calls :
                        calls[i].client = c /\ calls[i].send = "fulfilled" /\ ~Queued(i)})
  /\ \A k \in DOMAIN listeners : Len(listeners[k].received) <= Len(PushedSince(listeners[k]))

C11_Witness ==
  /\ Len(calls) = 1
  /\ calls[1].send = "rejected"
  /\ calls[1].promise = "rejected"
  /\ \E k \in DOMAIN listeners :
       listeners[k].stream.kind = "responses" /\ listeners[k].received = <<>>

\* C12: a call whose send resolves resolves to the value send produced,
\* error shaped or not, and a call's promise rejects only when send failed.
C12_ResolvesToTransportEnvelope ==
  \A i \in DOMAIN calls :
    /\ calls[i].promise = "resolved" =>
         calls[i].send = "fulfilled" /\ calls[i].result = calls[i].response
    /\ (calls[i].send = "fulfilled" /\ ~Queued(i)) => calls[i].promise = "resolved"
    /\ calls[i].promise = "rejected" => calls[i].send \in {"rejected", "threw"}

C12_Witness ==
  \E i \in DOMAIN calls :
    /\ calls[i].promise = "resolved"
    /\ calls[i].response = error("action-not-found")
    /\ calls[i].result = error("action-not-found")

\* C13: the entries of client.responses are in the order in which the sends
\* settled, whatever the order the calls were issued in, and each entry
\* carries the action name of the call that pushed it.
C13_PushesInSettleOrder ==
  /\ \A i, j \in ResolvedCalls :
       (calls[i].client = calls[j].client /\ calls[i].settledAt < calls[j].settledAt)
         => calls[i].pushedAt < calls[j].pushedAt
  /\ \A i \in ResolvedCalls :
       /\ calls[i].pushedAt \in DOMAIN responses[calls[i].client]
       /\ responses[calls[i].client][calls[i].pushedAt] =
            actionFunction_tagged(calls[i].response, calls[i].action)
       /\ responses[calls[i].client][calls[i].pushedAt].actionName = calls[i].action

C13_Witness ==
  /\ Len(calls) >= 2
  /\ ResolvedCalls = {1, 2}
  /\ calls[1].action = calls[2].action
  /\ calls[1].response # calls[2].response
  /\ calls[2].settledAt < calls[1].settledAt
  /\ calls[2].pushedAt = 1
  /\ calls[1].pushedAt = 2

\* the accessors obtained for property prop of client c, by the calls and
\* by the listeners of its streams
AccessorsObtained(c, prop) ==
  {calls[i].accessor : i \in {k \in DOMAIN calls :
                                calls[k].client = c /\ calls[k].action = prop}}
    \cup {listeners[i].stream.accessor :
            i \in {k \in DOMAIN listeners :
                     listeners[k].client = c /\ listeners[k].stream.action = prop}}

\* C17: every access to client.<name> yields the same accessor, hence the
\* same data and error streams; at most one accessor is built per name and
\* client; listeners registered on one stream through different accesses
\* receive the same pushes.
C17_AccessorsAreMemoized ==
  /\ \A c \in Clients, prop \in ClientActions :
       /\ Cardinality(AccessorsObtained(c, prop)) <= 1
       /\ Cardinality({k \in DOMAIN created[c] : created[c][k] = prop}) <= 1
       /\ \A id \in AccessorsObtained(c, prop) :
            id = actionObjects[c][prop] /\ id \in DOMAIN created[c] /\ created[c][id] = prop
  /\ \A k1, k2 \in DOMAIN listeners :
       ( /\ listeners[k1].client = listeners[k2].client
         /\ listeners[k1].stream.kind = listeners[k2].stream.kind
         /\ listeners[k1].stream.action = listeners[k2].stream.action
         /\ listeners[k1].since = listeners[k2].since )
         => listeners[k1].received = listeners[k2].received

C17_Witness ==
  /\ Len(listeners) = 2
  /\ listeners[1].stream = Stream("action.data", "addUser", 1)
  /\ listeners[2].stream = Stream("action.data", "addUser", 1)
  /\ listeners[1].received # <<>>
  /\ listeners[2].received = listeners[1].received
  /\ Len(calls) = 1
  /\ calls[1].accessor = 1
  /\ created["c1"] = <<"addUser">>

\* C18 as stated: for every name of a server action, client.<name> is
\* callable and the call calls send once with {action: name, args}.
C18_EveryNameIsCallable ==
  \A i \in DOMAIN calls :
    /\ calls[i].promise # "threw"
    /\ calls[i].sent = <<Request(calls[i].action, ArgsArray(calls[i].args))>>

\* a response that has an error field, whatever the field holds
HasErrorField(r) == r.error # Absent

HasNoErrorField(r) == r.error = Absent

\* the responses pushed since listener l registered that are tagged with the
\* action of l's stream
TaggedSince(l) == SelectSeq(PushedSince(l), LAMBDA r : r.actionName = l.stream.action)

Payloads(rs, field) == [i \in DOMAIN rs |-> ReadField(rs[i], field)]

\* C14: a listener on client.a.data receives exactly the data payloads of
\* the responses tagged a that have no error field, in push order, and
\* nothing for a response tagged otherwise or for an error response.
C14_ActionDataStreamIsSuccessPayloads ==
  \A k \in DOMAIN listeners :
    listeners[k].stream.kind = "action.data" =>
      listeners[k].received =
        Payloads(SelectSeq(TaggedSince(listeners[k]), HasNoErrorField), "data")

\* C15: every response tagged a that has an error field, whatever its value,
\* is delivered to client.a.error as its error payload and not to
\* client.a.data; every response tagged a goes to exactly one of the two.
C15_ErrorFieldGoesToActionError ==
  /\ \A k \in DOMAIN listeners :
       /\ listeners[k].stream.kind = "action.error" =>
            listeners[k].received =
              Payloads(SelectSeq(TaggedSince(listeners[k]), HasErrorField), "error")
       /\ listeners[k].stream.kind = "action.data" =>
            Len(listeners[k].received) + Len(SelectSeq(TaggedSince(listeners[k]), HasErrorField))
              = Len(TaggedSince(listeners[k]))
  /\ \A c \in Clients : \A n \in DOMAIN responses[c] :
       (get_data(responses[c][n], responses[c][n].actionName) = <<>>)
         # (get_error(responses[c][n], responses[c][n].actionName) = <<>>)

WithoutField(rs, field) == [i \in DOMAIN rs |-> [rs[i] EXCEPT ![field] = Absent]]

\* C16: every pushed response is delivered to exactly one of client.data
\* (the responses without an error field) and client.error (those with
\* one); delivered entries keep their actionName; client.data entries have
\* no error field and client.error entries no data field.
C16_GlobalStreamsPartitionResponses ==
  /\ \A k \in DOMAIN listeners :
       /\ listeners[k].stream.kind = "data" =>
            listeners[k].received =
              WithoutField(SelectSeq(PushedSince(listeners[k]), HasNoErrorField), "error")
       /\ listeners[k].stream.kind = "error" =>
            listeners[k].received =
              WithoutField(SelectSeq(PushedSince(listeners[k]), HasErrorField), "data")
  /\ \A c \in Clients : \A n \in DOMAIN responses[c] :
       (create_data(responses[c][n]) = <<>>) # (create_error(responses[c][n]) = <<>>)

\* C19: a listener that throws during a push does not keep the response from
\* the other listeners and streams of the client, and the call that pushed
\* still resolves to the envelope send produced.
C19_ThrowingListenerIsIsolated ==
  /\ \A k \in DOMAIN listeners :
       listeners[k].received = Deliveries(listeners[k].stream, PushedSince(listeners[k]))
  /\ \A i \in DOMAIN calls :
       (calls[i].send = "fulfilled" /\ ~Queued(i)) =>
         /\ calls[i].promise = "resolved"
         /\ calls[i].result = calls[i].response
         /\ calls[i].pushedAt = Len(responses[calls[i].client])

C19_Witness ==
  /\ Len(listeners) = 2
  /\ listeners[1].throws
  /\ listeners[1].received # <<>>
  /\ ~listeners[2].throws
  /\ listeners[2].stream.kind # listeners[1].stream.kind
  /\ listeners[2].received # <<>>
  /\ Len(calls) = 1
  /\ calls[1].promise = "resolved"

\* the properties of client c that a call or a listener went through
Accessed(c) ==
  {calls[i].action : i \in {k \in DOMAIN calls : calls[k].client = c}}
    \cup {listeners[i].stream.action :
            i \in {k \in DOMAIN listeners :
                     listeners[k].client = c /\ listeners[k].stream.accessor > 0}}

\* C20: two clients share no stream and no accessor cache: a call completed
\* through one client pushes onto that client's responses only, delivers to
\* no listener of the other client, and builds no accessor in the other.
C20_ClientsShareNothing ==
  /\ \A c \in Clients :
       /\ \A n \in DOMAIN responses[c] :
            \E i \in ResolvedCalls :
              calls[i].client = c /\ calls[i].pushedAt = n /\ calls[i].pushed = <<responses[c][n]>>
       /\ \A prop \in Props : actionObjects[c][prop] # 0 => prop \in Accessed(c)
       /\ \A n \in DOMAIN created[c] : created[c][n] \in Accessed(c)
  /\ \A k \in DOMAIN listeners :
       ({i \in ResolvedCalls : calls[i].client = listeners[k].client} = {})
         => listeners[k].received = <<>>

C20_Witness ==
  /\ Len(listeners) = 1
  /\ listeners[1].client = "c2"
  /\ listeners[1].stream.kind = "responses"
  /\ listeners[1].received = <<>>
  /\ \E i \in ResolvedCalls : calls[i].client = "c1"
  /\ Len(responses["c1"]) >= 1
  /\ responses["c2"] = <<>>
  /\ actionObjects["c1"]["addUser"] # 0
  /\ actionObjects["c2"]["addUser"] = 0

\* C21: the client's streams keep no history: a listener receives nothing
\* for a response pushed before it registered, on responses, data, error
\* and the per-action streams alike; what it receives stems from the
\* responses pushed since.
C21_NoHistory ==
  \A k \in DOMAIN listeners :
    /\ Len(listeners[k].received) <= Len(PushedSince(listeners[k]))
    /\ PushedSince(listeners[k]) = <<>> => listeners[k].received = <<>>
    /\ \A j \in DOMAIN listeners[k].received :
         \E n \in (listeners[k].since + 1)..Len(responses[listeners[k].client]) :
           Emitted(listeners[k].stream, responses[listeners[k].client][n])
             = <<listeners[k].received[j]>>

C21_Witness ==
  /\ Len(listeners) = 1
  /\ listeners[1].since = 1
  /\ Len(responses["c1"]) = 2
  /\ Emitted(listeners[1].stream, responses["c1"][1]) # <<>>
  /\ Emitted(listeners[1].stream, responses["c1"][1])
       # Emitted(listeners[1].stream, responses["c1"][2])
  /\ listeners[1].received = Emitted(listeners[1].stream, responses["c1"][2])
  /\ listeners[1].received # <<>>

\* C22: a handler registered under the empty string is dispatchable: a
\* handle call whose request.action is the empty string invokes that
\* handler, resolves to the envelope the handler returns, and never
\* resolves to {error: "action-not-found"}.
C22_FalsyNameIsDispatchable ==
  (Registered /\ Key = "" /\ requestArgs(request).k # "prim") =>
     /\ Len(invoked) = 1
     /\ invoked[1].fn = Fn("actions", "")
     /\ hpc = "resolved" => returned # error("action-not-found")
     /\ \A v \in HandlerValues :
          (HandlerCompletedWith(v) /\ IsResponse(v) /\ hpc = "resolved") => returned = v

\* C23: once a client call has resolved, its tagged response is already on
\* client.responses and every listener registered on client.responses
\* before the push has already been invoked with it: the push and the
\* notification precede the resolution of the call's promise.
C23_PushPrecedesResolution ==
  \A i \in ResolvedCalls :
    /\ calls[i].pushedAt \in DOMAIN responses[calls[i].client]
    /\ \A k \in DOMAIN listeners :
         ( /\ listeners[k].client = calls[i].client
           /\ listeners[k].stream.kind = "responses"
           /\ listeners[k].since < calls[i].pushedAt )
           => /\ Len(listeners[k].received) >= calls[i].pushedAt - listeners[k].since
              /\ listeners[k].received[calls[i].pushedAt - listeners[k].since]
                   = actionFunction_tagged(calls[i].response, calls[i].action)

C23_Witness ==
  /\ Len(calls) = 1
  /\ calls[1].promise = "resolved"
  /\ calls[1].settledAt = 1
  /\ calls[1].pushedAt = 1
  /\ \E k \in DOMAIN listeners :
       /\ listeners[k].stream.kind = "responses"
       /\ listeners[k].received = <<actionFunction_tagged(calls[1].response, "addUser")>>

\* C24: a call whose send never settles stays pending and pushes nothing,
\* and it blocks no other call: every call whose send has resolved, issued
\* before or after it, eventually resolves and pushes its tagged response.
C24_PendingCallBlocksNothing ==
  /\ [](\A i \in DOMAIN calls :
          calls[i].send = "pending" =>
            calls[i].promise = "pending" /\ calls[i].pushed = <<>> /\ ~Queued(i))
  /\ \A i \in 1..MaxCalls :
       (i \in DOMAIN calls /\ calls[i].send = "fulfilled")
         ~> ( /\ i \in DOMAIN calls
              /\ calls[i].promise = "resolved"
              /\ calls[i].pushed = <<actionFunction_tagged(calls[i].response, calls[i].action)>> )

C24_Witness ==
  /\ Len(calls) = 2
  /\ calls[1].send = "pending"
  /\ calls[1].promise = "pending"
  /\ calls[1].action = calls[2].action
  /\ calls[2].promise = "resolved"
  /\ responses["c1"] = calls[2].pushed
  /\ Len(responses["c1"]) = 1

\* the own field of a value send produced, Absent for a non-object
OwnField(v, field) == IF v.t = "obj" THEN v[field] ELSE Absent

\* C25: the value a client call resolves to is the value send produced,
\* unchanged and with no actionName added; the entry pushed onto
\* client.responses is another object, with the data and error of that value
\* and the called action's name as actionName, also when the value had an
\* actionName of its own.
C25_TagOnlyOnStreamEntry ==
  \A i \in ResolvedCalls :
    /\ calls[i].result = calls[i].response
    /\ OwnField(calls[i].result, "actionName") = OwnField(calls[i].response, "actionName")
    /\ calls[i].pushed =
         <<Obj(OwnField(calls[i].response, "data"),
               OwnField(calls[i].response, "error"),
               calls[i].action)>>
    /\ responses[calls[i].client][calls[i].pushedAt].actionName = calls[i].action

C25_Witness ==
  \E i \in ResolvedCalls :
    /\ calls[i].action = "addUser"
    /\ calls[i].response = Obj("42", Absent, "other")
    /\ calls[i].result = Obj("42", Absent, "other")
    /\ calls[i].pushed = <<Obj("42", Absent, "addUser")>>
    /\ \E j \in ResolvedCalls :
         /\ calls[j].response = success("42")
         /\ calls[j].result.actionName = Absent
         /\ calls[j].pushed[1].actionName = calls[j].action

\* C26: every falsy value a registered handler returns or resolves to
\* (undefined, null, false, 0, the empty string) makes handle resolve to
\* {data: undefined}; the falsy value itself is never what handle
\* resolves to.
C26_FalsyResultIsNormalized ==
  \A v \in HandlerValues :
    (HandlerCompletedWith(v) /\ ~Truthy(v) /\ hpc = "resolved") =>
       /\ returned = success("undefined")
       /\ returned # v

C26_Witness ==
  /\ HandlerCompletedWith(Prim("0"))
  /\ awaited.async
  /\ hpc = "resolved"
  /\ returned = success("undefined")

====
